---- MODULE Spec2Model ----
(***************************************************************************)
(* Long-text chunking and hierarchical summarization                       *)
(* (src/src/summarize_text.py): split_text_into_chunks, summarize_chunk    *)
(* and summarize_text; and the task service of the web application         *)
(* (src/app/services/task_service.py) with the background work and the     *)
(* progress stream that use it (src/app/web/routes/api.py,                 *)
(* src/app/web/views/processors.py).                                       *)
(*                                                                         *)
(* A text is a sequence of blocks; a block is a short pattern of           *)
(* characters repeated `reps` times.  Positions are 0-based, as in Python. *)
(* Characters: "x" ordinary, "sp" space, "nl" newline, "dot" the           *)
(* full-width period, "bang" / "qm" the full-width ! and ?.                *)
(***************************************************************************)
EXTENDS Integers, Sequences, FiniteSets, TLC

VARIABLES
    text,             \* argument text
    chunk_size,       \* argument chunk_size
    chunk_overlap,    \* argument chunk_overlap
    sp_pc,            \* split_text_into_chunks: "entry" | "loop" | "done" | "idle"
    start,            \* split_text_into_chunks: local start
    chunks,           \* split_text_into_chunks: local chunks (ranges [lo, hi) of text)
    windows,          \* history: the [start, end) window of every loop iteration
    earlier,          \* history: the arguments and results of the calls that have returned
    pc,               \* summarize_text: where the invocation is
    api_key,          \* argument / local api_key: "None", "" or a key
    env_key,          \* os.getenv("API_KEY_302_AI") or os.getenv("OPENAI_API_KEY")
    enable_async,     \* argument enable_async
    max_workers,      \* argument max_workers
    save_chunk_summaries,  \* argument save_chunk_summaries
    futures,          \* chunk index -> "new" | "queued" | "running" | "finished" | "yielded"
    cap_result,       \* history: chunk index -> how its capability call ended ("ok" or the error)
    returned,         \* history: chunk index -> what summarize_chunk returned for it
    results_dict,     \* local results_dict, as its (index, summary) items in insertion order
    chunk_summaries,  \* local chunk_summaries
    calls,            \* history: the capability calls issued so far
    reduce_in_flight, \* the reduce call has been issued and has not resolved
    artifact,         \* the chunk_summaries_<timestamp>.txt file: NoArtifact or its content
    write_failed,     \* history: writing the artifact raised
    outcome,          \* how the invocation ended: Running, Returned(v) or Raised(e, stage)
    clock,            \* int(time.time()): the wall clock, in whole seconds
    tasks,            \* TaskService.tasks: task id -> state record
    progress_queues,  \* TaskService.progress_queues: task id -> queue object (index into queues)
    queues,           \* the queue.Queue objects created so far, each with its content
    threads,          \* the background threads started so far, in order of creation
    streams           \* the stream_progress generators opened so far

splitVars == <<sp_pc, start, windows>>
inputVars == <<text, chunk_size, chunk_overlap>>
callVars == <<earlier>>
taskVars == <<clock, tasks, progress_queues, queues, threads, streams>>
summVars == <<pc, api_key, env_key, enable_async, max_workers, save_chunk_summaries,
              futures, cap_result, returned, results_dict, chunk_summaries, calls,
              reduce_in_flight, artifact, write_failed, outcome>>
vars == <<text, chunk_size, chunk_overlap, sp_pc, start, chunks, windows, earlier,
          pc, api_key, env_key, enable_async, max_workers, save_chunk_summaries,
          futures, cap_result, returned, results_dict, chunk_summaries, calls,
          reduce_in_flight, artifact, write_failed, outcome,
          clock, tasks, progress_queues, queues, threads, streams>>

----------------------------------------------------------------------------
(* Bounds of the model *)

MaxBlocks == 3        \* a text has at most this many blocks
MaxSpan == 3          \* a text is at most MaxSpan chunk sizes longer than the minimum chunk

(* Program constants *)

MinChunkFloor == 100      \* max(100, chunk_size // 100)
MinChunkDivisor == 100
StepCap == 1000           \* min(1000, chunk_size // 10)
StepDivisor == 10

----------------------------------------------------------------------------
(* Helpers on integers and sets *)

Max2(a, b) == IF a >= b THEN a ELSE b
Min2(a, b) == IF a <= b THEN a ELSE b

----------------------------------------------------------------------------
(* Texts *)

Whitespace == {"sp", "nl"}

Blk(p, r) == [pat |-> p, reps |-> r]
BlockLen(b) == Len(b.pat) * b.reps

RECURSIVE LenUpTo(_, _)
LenUpTo(t, k) == IF k = 0 THEN 0 ELSE LenUpTo(t, k - 1) + BlockLen(t[k])

\* len(text)
TextLen(t) == LenUpTo(t, Len(t))

\* first position of block k, and the position just after it
BlockStart(t, k) == LenUpTo(t, k - 1)
BlockEnd(t, k) == LenUpTo(t, k)

\* text[i], for 0 <= i < len(text): the character i positions after the
\* start of block k
RECURSIVE CharFrom(_, _, _)
CharFrom(t, i, k) ==
    IF i < BlockLen(t[k])
    THEN t[k].pat[(i % Len(t[k].pat)) + 1]
    ELSE CharFrom(t, i - BlockLen(t[k]), k + 1)

CharAt(t, i) == CharFrom(t, i, 1)

\* text[p : p + len(sep)] == sep
MatchAt(t, sep, p) ==
    /\ p >= 0
    /\ p + Len(sep) <= TextLen(t)
    /\ \A j \in 1..Len(sep) : CharAt(t, p + j - 1) = sep[j]

\* Inside a block the text is periodic.  So the rightmost position of lo..hi
\* at which a separator of at most two characters starts is, in the last
\* block that has one, among the last Len(pat) + 1 positions of lo..hi in
\* that block; the scans below look at those positions only.  A scan's
\* result is handed to a local function, which names it once.

\* the highest p in bot..top with text[p : p + len(sep)] == sep, or -1
RECURSIVE ScanDown(_, _, _, _)
ScanDown(t, sep, p, bot) ==
    IF p < bot THEN -1
    ELSE IF MatchAt(t, sep, p) THEN p
    ELSE ScanDown(t, sep, p - 1, bot)

RECURSIVE RFindInBlocks(_, _, _, _, _)
RFindInBlocks(t, sep, lo, hi, k) ==
    IF k = 0 THEN -1
    ELSE LET top == Min2(hi, BlockEnd(t, k) - 1)
             bot == Max2(Max2(lo, BlockStart(t, k)), top - Len(t[k].pat))
             Found[hit \in Int] ==
                 IF hit # -1 THEN hit ELSE RFindInBlocks(t, sep, lo, hi, k - 1)
         IN  Found[ScanDown(t, sep, top, bot)]

\* str.rfind(sep, lo, hi): the highest p with lo <= p, p + len(sep) <= hi and
\* text[p : p + len(sep)] == sep, or -1
RFind(t, sep, lo, hi) == RFindInBlocks(t, sep, lo, hi - Len(sep), Len(t))

\* the lowest / highest position of bot..top holding a non-whitespace
\* character, or -1
RECURSIVE ScanUpNonWs(_, _, _)
ScanUpNonWs(t, p, top) ==
    IF p > top THEN -1
    ELSE IF CharAt(t, p) \notin Whitespace THEN p
    ELSE ScanUpNonWs(t, p + 1, top)

RECURSIVE ScanDownNonWs(_, _, _)
ScanDownNonWs(t, p, bot) ==
    IF p < bot THEN -1
    ELSE IF CharAt(t, p) \notin Whitespace THEN p
    ELSE ScanDownNonWs(t, p - 1, bot)

RECURSIVE FirstNonWs(_, _, _, _)
FirstNonWs(t, lo, hi, k) ==
    IF k > Len(t) THEN -1
    ELSE LET bot == Max2(lo, BlockStart(t, k))
             top == Min2(Min2(hi, BlockEnd(t, k) - 1), bot + Len(t[k].pat))
             Found[hit \in Int] ==
                 IF hit # -1 THEN hit ELSE FirstNonWs(t, lo, hi, k + 1)
         IN  Found[ScanUpNonWs(t, bot, top)]

RECURSIVE LastNonWs(_, _, _, _)
LastNonWs(t, lo, hi, k) ==
    IF k = 0 THEN -1
    ELSE LET top == Min2(hi, BlockEnd(t, k) - 1)
             bot == Max2(Max2(lo, BlockStart(t, k)), top - Len(t[k].pat))
             Found[hit \in Int] ==
                 IF hit # -1 THEN hit ELSE LastNonWs(t, lo, hi, k - 1)
         IN  Found[ScanDownNonWs(t, top, bot)]

\* text[lo:hi].strip() as the range [lo', hi') of text it occupies;
\* lo' = hi' when the stripped string is empty
Strip(t, lo, hi) ==
    LET Stripped[first \in Int] ==
            IF first = -1
            THEN [lo |-> lo, hi |-> lo]
            ELSE [lo |-> first, hi |-> LastNonWs(t, lo, hi - 1, Len(t)) + 1]
    IN  Stripped[FirstNonWs(t, lo, hi - 1, 1)]

\* `not text.strip()`
IsBlank(t) == LET s == Strip(t, 0, TextLen(t)) IN s.lo = s.hi

----------------------------------------------------------------------------
(* split_text_into_chunks *)

\* the separators in the order the loop tries them
Separators ==
    << <<"dot", "nl">>, <<"dot", "sp">>, <<"nl", "nl">>,
       <<"dot">>, <<"bang">>, <<"qm">>, <<"nl">> >>

min_chunk_size(size) == Max2(MinChunkFloor, size \div MinChunkDivisor)

\* the `for separator in [...]` loop: the first separator, in list order,
\* whose rightmost occurrence in [st, en) leaves a chunk of at least
\* min_chunk_size characters decides the end; otherwise end is unchanged
RECURSIVE SnapEnd(_, _, _, _, _)
SnapEnd(t, size, st, en, i) ==
    IF i > Len(Separators) THEN en
    ELSE LET Snap[last_sep \in Int] ==
                 LET potential_end == last_sep + Len(Separators[i])
                 IN  IF last_sep # -1 /\ potential_end - st >= min_chunk_size(size)
                     THEN potential_end
                     ELSE SnapEnd(t, size, st, en, i + 1)
         IN  Snap[RFind(t, Separators[i], st, en)]

\* the value of `end` when the chunk is extracted
WindowEnd(t, size, st) ==
    LET text_length == TextLen(t)
        end0 == Min2(st + size, text_length)
        end1 == IF end0 < text_length THEN SnapEnd(t, size, st, end0, 1) ELSE end0
    IN  IF text_length - st < min_chunk_size(size) THEN text_length ELSE end1

\* a mutant of Advance: the forced step to `end` is left out
AdvanceNoValve(t, size, overlap, st, en) ==
    LET next_start == Max2(en - overlap, st + Min2(StepCap, size \div StepDivisor))
    IN  [start |-> Min2(next_start, TextLen(t)), brk |-> FALSE]

\* a mutant of Advance: the next window reaches back twice the overlap
AdvanceDoubleOverlap(t, size, overlap, st, en) ==
    LET text_length == TextLen(t)
        next_start == Max2(en - 2 * overlap, st + Min2(StepCap, size \div StepDivisor))
        start1 == Min2(next_start, text_length)
    IN  IF start1 <= st
        THEN [start |-> en, brk |-> en >= text_length]
        ELSE [start |-> start1, brk |-> FALSE]

\* the new value of `start`, and whether the loop is left by `break`
Advance(t, size, overlap, st, en) ==
    LET text_length == TextLen(t)
        next_start == Max2(en - overlap, st + Min2(StepCap, size \div StepDivisor))
        start1 == Min2(next_start, text_length)
    IN  IF start1 <= st
        THEN [start |-> en, brk |-> en >= text_length]
        ELSE [start |-> start1, brk |-> FALSE]

\* chunks after `chunk = text[start:end].strip(); if chunk: chunks.append(chunk)`
AppendChunk(cs, t, st, en) ==
    LET chunk == Strip(t, st, en)
    IN  IF chunk.lo < chunk.hi THEN Append(cs, chunk) ELSE cs

\* the `while start < text_length` loop, from `start` = st with `chunks` = cs;
\* the local functions name `start`, `end` and the result of the advance once
RECURSIVE SplitFrom(_, _, _, _, _)
SplitFrom(t, size, overlap, st, cs) ==
    LET From[start0 \in Int] ==
            IF start0 >= TextLen(t) THEN cs
            ELSE LET To[end \in Int] ==
                         LET cs1 == AppendChunk(cs, t, start0, end)
                             Go[brk \in BOOLEAN, start1 \in Int] ==
                                 IF brk THEN cs1
                                 ELSE SplitFrom(t, size, overlap, start1, cs1)
                         IN  Go[Advance(t, size, overlap, start0, end).brk,
                                Advance(t, size, overlap, start0, end).start]
                 IN  To[WindowEnd(t, size, start0)]
    IN  From[st]

\* the chunk list split_text_into_chunks returns
split_text_into_chunks(t, size, overlap) ==
    IF t = <<>> THEN <<>>
    ELSE IF TextLen(t) <= size THEN << [lo |-> 0, hi |-> TextLen(t)] >>
    ELSE SplitFrom(t, size, overlap, 0, <<>>)

----------------------------------------------------------------------------
(* Inputs of the chunker *)

Atoms ==
    { Blk(<<"x">>, 99), Blk(<<"x">>, 1200), Blk(<<"nl">>, 1),
      Blk(<<"sp">>, 1900), Blk(<<"x", "dot">>, 60) }

TextsOfLen(n) == [1..n -> Atoms]
Texts == UNION { TextsOfLen(n) : n \in 0..MaxBlocks }

NoValue == [kind |-> "none", chunk |-> 0, reason |-> "", parts |-> <<>>]
NoArtifact == [exists |-> FALSE, meta |-> {}, parts |-> <<>>, complete |-> FALSE]
Running == [status |-> "none", value |-> NoValue, error |-> "", stage |-> ""]

\* summarize_text is not running
\* no request has reached the web application
TaskIdle ==
    /\ clock = 1
    /\ tasks = <<>>
    /\ progress_queues = <<>>
    /\ queues = <<>>
    /\ threads = <<>>
    /\ streams = <<>>

SummIdle ==
    /\ pc = "idle"
    /\ api_key = "None"
    /\ env_key = "None"
    /\ enable_async = FALSE
    /\ max_workers = 1
    /\ save_chunk_summaries = FALSE
    /\ futures = <<>>
    /\ returned = <<>>
    /\ results_dict = <<>>
    /\ chunk_summaries = <<>>
    /\ calls = <<>>
    /\ reduce_in_flight = FALSE
    /\ cap_result = <<>>
    /\ artifact = NoArtifact
    /\ write_failed = FALSE
    /\ outcome = Running

SplitSizes == {3, 1100, 2000}
SplitOverlaps == {0, 300}

\* the defaults of chunk_size and chunk_overlap
DefaultChunkSize == 100000
DefaultOverlap == 300

\* 250,000 characters of ten-character sentences, each ending in the
\* full-width period
Sentence == <<"x", "x", "x", "x", "x", "x", "x", "x", "x", "dot">>
ScenarioText == << Blk(Sentence, 25000) >>

\* short texts with breakpoint markers, for a chunk size below the minimum
\* chunk size
SmallAtoms == { Blk(<<"x", "dot">>, 2), Blk(<<"x">>, 2), Blk(<<"nl">>, 1) }
SmallTexts == UNION { [1..n -> SmallAtoms] : n \in 1..MaxBlocks }

\* the text ("x" * 99 + "\n" + "x" * 1109 + "\n") * n: for chunk size 1100
\* every other window holds a single newline, 100 characters after its start
MaxPeriods == 5
PeriodBlock(k) ==
    IF k % 4 = 1 THEN Blk(<<"x">>, 99)
    ELSE IF k % 4 = 3 THEN Blk(<<"x">>, 1109)
    ELSE Blk(<<"nl">>, 1)
PeriodicText(n) == [k \in 1..(4 * n) |-> PeriodBlock(k)]

SplitInit ==
    /\ \/ /\ text \in Texts
          /\ chunk_size \in SplitSizes
          /\ chunk_overlap \in SplitOverlaps
          /\ TextLen(text) <= min_chunk_size(chunk_size) + MaxSpan * chunk_size
       \/ /\ text = ScenarioText
          /\ chunk_size = DefaultChunkSize
          /\ chunk_overlap = DefaultOverlap
       \/ /\ text \in SmallTexts
          /\ chunk_size = 3
          /\ chunk_overlap \in SplitOverlaps
       \/ /\ text = PeriodicText(MaxPeriods)
          /\ chunk_size = 1100
          /\ chunk_overlap = 0
    /\ sp_pc = "entry"
    /\ start = 0
    /\ chunks = <<>>
    /\ windows = <<>>
    /\ earlier = <<>>
    /\ SummIdle
    /\ TaskIdle

\* a mutant of FreshChunks: the list outlives the call (as a module-level
\* list or a mutable default argument would)
KeptChunks(left) == left

\* line 89: `chunks = []`, whatever an earlier call left behind
FreshChunks(left) == <<>>

\* lines 80-90: the two early returns, or entry into the loop
SplitEntry ==
    /\ sp_pc = "entry"
    /\ IF text = <<>>
       THEN /\ chunks' = <<>>
            /\ sp_pc' = "done"
       ELSE IF TextLen(text) <= chunk_size
       THEN /\ chunks' = << [lo |-> 0, hi |-> TextLen(text)] >>
            /\ sp_pc' = "done"
       ELSE /\ chunks' = FreshChunks(chunks)
            /\ sp_pc' = "loop"
    /\ start' = 0
    /\ UNCHANGED <<inputVars, callVars, taskVars, windows, summVars>>

\* one iteration of `while start < text_length`
SplitStep ==
    /\ sp_pc = "loop"
    /\ start < TextLen(text)
    /\ \E end \in {WindowEnd(text, chunk_size, start)} :
       \E adv \in {Advance(text, chunk_size, chunk_overlap, start, end)} :
           /\ windows' = Append(windows, [start |-> start, end |-> end])
           /\ \E cs1 \in {AppendChunk(chunks, text, start, end)} : chunks' = cs1
           /\ start' = adv.start
           /\ sp_pc' = IF adv.brk \/ adv.start >= TextLen(text) THEN "done" ELSE "loop"
    /\ UNCHANGED <<inputVars, callVars, taskVars, summVars>>

SplitNext == SplitEntry \/ SplitStep

SpecSplit == SplitInit /\ [][SplitNext]_vars

\* the loop is a sequential function body: it runs whenever it can
FairSpecSplit == SpecSplit /\ WF_vars(SplitNext)

----------------------------------------------------------------------------
(* split_text_into_chunks called again and again *)

MaxCalls == 3         \* the function is called at most this many times

\* the arguments of the repeated calls
RepeatInputs ==
    { [text |-> t, size |-> sz, overlap |-> ov] :
        t \in { << Blk(<<"x">>, 1200) >>,
                << Blk(<<"x">>, 99), Blk(<<"nl">>, 1), Blk(<<"x">>, 1200) >> },
        sz \in {1100, 2000},
        ov \in {0, 300} }

RepeatInit ==
    /\ \E a \in RepeatInputs :
         /\ text = a.text
         /\ chunk_size = a.size
         /\ chunk_overlap = a.overlap
    /\ sp_pc = "entry"
    /\ start = 0
    /\ chunks = <<>>
    /\ windows = <<>>
    /\ earlier = <<>>
    /\ SummIdle
    /\ TaskIdle

\* the call has returned and the caller calls the function again, with any
\* arguments; the function keeps no state, so whatever the variables of the
\* last call hold is left in them and the next call has to set its own
SplitAgain ==
    /\ sp_pc = "done"
    /\ Len(earlier) < MaxCalls - 1
    /\ earlier' = Append(earlier, [text |-> text, size |-> chunk_size,
                                   overlap |-> chunk_overlap, result |-> chunks])
    /\ \E a \in RepeatInputs :
         /\ text' = a.text
         /\ chunk_size' = a.size
         /\ chunk_overlap' = a.overlap
    /\ sp_pc' = "entry"
    /\ windows' = <<>>
    /\ UNCHANGED <<start, chunks, summVars, taskVars>>

RepeatNext == SplitEntry \/ SplitStep \/ SplitAgain

SpecRepeat == RepeatInit /\ [][RepeatNext]_vars

----------------------------------------------------------------------------
(* split_text_into_chunks on texts whose first window holds several markers *)

MaxMarkers == 3       \* the first window holds at most this many marker blocks

\* pieces of text of 100 characters or more (the minimum chunk size for the
\* chunk size used), each ending with a marker, or plain
MarkerAtoms ==
    { Blk(<<"x">>, 150), Blk(<<"nl">>, 2), Blk(<<"nl">>, 1), Blk(<<"dot">>, 1),
      Blk(<<"bang">>, 1), Blk(<<"dot", "nl">>, 1), Blk(<<"dot", "sp">>, 1) }

\* "x" * 150, then up to MaxMarkers pieces, then "x" * 1200: longer than one
\* window of 1100 characters, with every marker in the first window and at
\* least 100 characters after its start
MarkerTexts ==
    { << Blk(<<"x">>, 150) >> \o m \o << Blk(<<"x">>, 1200) >> :
        m \in UNION { [1..n -> MarkerAtoms] : n \in 1..MaxMarkers } }

MarkerInit ==
    /\ text \in MarkerTexts
    /\ chunk_size = 1100
    /\ chunk_overlap \in SplitOverlaps
    /\ sp_pc = "entry"
    /\ start = 0
    /\ chunks = <<>>
    /\ windows = <<>>
    /\ earlier = <<>>
    /\ SummIdle
    /\ TaskIdle

MarkerNext == SplitEntry \/ SplitStep

SpecMarker == MarkerInit /\ [][MarkerNext]_vars

----------------------------------------------------------------------------
(* summarize_chunk and summarize_text *)

MaxReps == 4          \* the longest text summarized repeats its block this many times
MaxChunks == 3        \* the texts summarized split into at most this many chunks
MaxWorkers == 2       \* max_workers ranges over 1..MaxWorkers

\* The strings that flow through the summarizer, all of one record shape
\* (NoValue stands for a variable that holds none yet).
\* what the capability answers to the prompt built for chunk i
Summary(i) == [kind |-> "summary", chunk |-> i, reason |-> "", parts |-> <<>>]
\* f"[總結失敗: {str(e)}]"
Placeholder(e) == [kind |-> "failed", chunk |-> 0, reason |-> e, parts |-> <<>>]
\* what the capability answers to the final prompt built from `combined`
Final(combined) == [kind |-> "final", chunk |-> 0, reason |-> "", parts |-> combined]

\* chat_completion_simple either returns or raises with one of these messages
Errors == {"timeout", "quota"}
CapOutcomes == {"ok"} \cup Errors

ChunkCall(i, n) == [kind |-> "chunk", index |-> i, total |-> n, combined |-> <<>>]
ReduceCall(combined) == [kind |-> "reduce", index |-> 0, total |-> 0, combined |-> combined]

\* a mutant of summarize_chunk: the placeholder does not carry the error
summarize_chunk_no_reason(i, n, o) ==
    IF o = "ok" THEN Summary(i) ELSE Placeholder("")

\* summarize_chunk's return value when the capability call for chunk i of n
\* ends with outcome o: the try/except turns every failure into a placeholder
summarize_chunk(i, n, o) ==
    IF o = "ok" THEN Summary(i) ELSE Placeholder(o)

\* lines 264-269: the credential check raises
KeyMissing(arg, env) == arg = "None" /\ env \in {"None", ""}

\* the value of api_key after line 265
ResolvedKey(arg, env) == IF arg = "None" THEN env ELSE arg

\* a mutant of TextInvalid: only the empty string is refused
TextInvalidNoStrip(t) == t = <<>>

\* line 271: `not text or not text.strip()`
TextInvalid(t) == t = <<>> \/ IsBlank(t)

\* line 297: `if total_chunks == 1`
UseSinglePath(n) == n = 1

\* line 338: `if enable_async and total_chunks > 1`
UsePool(async, n) == async /\ n > 1

\* results_dict[idx] = summary, on a dict that keeps insertion order
DictSet(d, idx, v) ==
    IF \E k \in 1..Len(d) : d[k].idx = idx
    THEN [k \in 1..Len(d) |-> IF d[k].idx = idx THEN [idx |-> idx, val |-> v] ELSE d[k]]
    ELSE Append(d, [idx |-> idx, val |-> v])

DictHas(d, idx) == \E k \in 1..Len(d) : d[k].idx = idx
DictGet(d, idx) == d[CHOOSE k \in 1..Len(d) : d[k].idx = idx].val

\* a mutant of AssembleResults: the values in completion (insertion) order
AssembleAsCompleted(d, n) == [k \in 1..Len(d) |-> d[k].val]

\* line 376: [results_dict[i] for i in range(1, total_chunks + 1) if i in results_dict]
RECURSIVE AssembleUpTo(_, _)
AssembleUpTo(d, i) ==
    IF i = 0 THEN <<>>
    ELSE IF DictHas(d, i) THEN Append(AssembleUpTo(d, i - 1), DictGet(d, i))
    ELSE AssembleUpTo(d, i - 1)

AssembleResults(d, n) == AssembleUpTo(d, n)

\* `for future in as_completed(future_to_chunk)` has yielded every future
AsCompletedExhausted(f) == \A i \in DOMAIN f : f[i] = "yielded"

\* leaving `with ThreadPoolExecutor(...)` waits until every submitted work
\* item has run
PoolDrained(f) == \A i \in DOMAIN f : f[i] \in {"finished", "yielded"}

\* a mutant of PoolHasIdleThread: no pool thread ever takes a work item
PoolHasIdleThreadNever(running, workers) == FALSE

\* a mutant of PoolHasIdleThread: the pool starts a thread for every work item
PoolHasIdleThreadAlways(running, workers) == TRUE

\* line 340: ThreadPoolExecutor(max_workers=max_workers) runs a queued work
\* item only while fewer than max_workers of its threads are busy
PoolHasIdleThread(running, workers) == running < workers

\* a mutant of SubmitLoopDone: the submit loop is left one chunk early
SubmitLoopDoneEarly(i, n) == i >= n - 1

\* lines 343-354: `for i, chunk in enumerate(chunks, start=1)` around
\* executor.submit is over once chunk n has been submitted
SubmitLoopDone(i, n) == i = n

\* a mutant of SeqLoopDone: the sequential loop stops one chunk early
SeqLoopDoneEarly(i, n) == i >= n - 1

\* line 380: `for i, chunk in enumerate(chunks, start=1)` is over after chunk n
SeqLoopDone(i, n) == i = n

\* lines 437-440: the combined text, one labelled entry per partial summary
Combine(summaries) ==
    [i \in 1..Len(summaries) |-> [label |-> i, summary |-> summaries[i]]]

\* the side artifact (NoArtifact: the file does not exist)

\* a mutant of WritesArtifact: the artifact is written whatever the flag says
WritesArtifactAlways(save) == TRUE

\* lines 311 and 403: `if save_chunk_summaries:`
WritesArtifact(save) == save

\* lines 313-322: what the single-chunk path writes
SingleArtifact(summary) ==
    [exists |-> TRUE, meta |-> {"timestamp", "chunk_count"},
     parts |-> << summary >>, complete |-> TRUE]

\* a mutant of MultiArtifact: the last partial summary is not written
MultiArtifactShort(summaries) ==
    [exists |-> TRUE, meta |-> {"timestamp", "chunk_count", "model", "language"},
     parts |-> SubSeq(summaries, 1, Len(summaries) - 1), complete |-> TRUE]

\* lines 407-422: what the multi-chunk path writes
MultiArtifact(summaries) ==
    [exists |-> TRUE, meta |-> {"timestamp", "chunk_count", "model", "language"},
     parts |-> summaries, complete |-> TRUE]

\* what is on disk when writing `full` raises part-way: no file (open failed),
\* or the header and fewer parts than `full` has
Truncated(full) ==
    {NoArtifact} \cup
    { [full EXCEPT !.parts = SubSeq(full.parts, 1, k), !.complete = FALSE] :
        k \in 0..(Len(full.parts) - 1) }

Returned(v) == [status |-> "returned", value |-> v, error |-> "", stage |-> ""]
Raised(e, st) == [status |-> "raised", value |-> NoValue, error |-> e, stage |-> st]

\* what the message of the error raised at stage st tells the caller: lines
\* 267, 272 and 284 raise a fixed text naming what failed, line 490 a fixed
\* text naming the final summary followed by str(e), and an error of the
\* write of lines 313-322 is the operating system's own
ErrorTells(st) ==
    IF st = "Persisting" THEN {"reason"}
    ELSE IF st = "Reducing" THEN {"stage", "reason"}
    ELSE {"stage"}

InFlight == { i \in DOMAIN futures : futures[i] = "running" }

----------------------------------------------------------------------------
(* Inputs of summarize_text *)

X1200 == Blk(<<"x">>, 1200)

SummTexts ==
    { <<>>,                                                   \* ""
      << Blk(<<"nl">>, 100) >>,                               \* whitespace only
      << Blk(<<"nl">>, 100), Blk(<<"x">>, 99), Blk(<<"sp">>, 1900) >> }
    \cup { [k \in 1..n |-> X1200] : n \in 1..MaxReps }

\* the api_key argument and the environment it runs in
KeyInputs ==
    { [arg |-> "None", env |-> "None"], [arg |-> "None", env |-> "envkey"],
      [arg |-> "", env |-> "None"], [arg |-> "key", env |-> "None"] }

SummInit ==
    /\ text \in SummTexts
    /\ chunk_size = 2000
    /\ chunk_overlap \in {0, 300}
    /\ Len(split_text_into_chunks(text, chunk_size, chunk_overlap)) <= MaxChunks
    /\ \E k \in KeyInputs : api_key = k.arg /\ env_key = k.env
    /\ enable_async \in BOOLEAN
    /\ max_workers \in 1..MaxWorkers
    /\ (~enable_async => max_workers = 1)
    /\ save_chunk_summaries \in BOOLEAN
    /\ pc = "validating"
    /\ sp_pc = "idle"
    /\ start = 0
    /\ chunks = <<>>
    /\ windows = <<>>
    /\ earlier = <<>>
    /\ futures = <<>>
    /\ cap_result = <<>>
    /\ returned = <<>>
    /\ results_dict = <<>>
    /\ chunk_summaries = <<>>
    /\ calls = <<>>
    /\ reduce_in_flight = FALSE
    /\ artifact = NoArtifact
    /\ write_failed = FALSE
    /\ outcome = Running
    /\ TaskIdle

----------------------------------------------------------------------------
(* summarize_text, step by step *)

\* lines 263-274: the credential check, then the text check
Validate ==
    /\ pc = "validating"
    /\ IF KeyMissing(api_key, env_key)
       THEN /\ outcome' = Raised("ValueError", "Validating")
            /\ pc' = "failed"
            /\ api_key' = ResolvedKey(api_key, env_key)
       ELSE IF TextInvalid(text)
       THEN /\ outcome' = Raised("ValueError", "Validating")
            /\ pc' = "failed"
            /\ api_key' = ResolvedKey(api_key, env_key)
       ELSE /\ outcome' = outcome
            /\ pc' = "chunking"
            /\ api_key' = ResolvedKey(api_key, env_key)
    /\ UNCHANGED <<inputVars, callVars, taskVars, splitVars, chunks, env_key, enable_async, max_workers,
                   save_chunk_summaries, futures, cap_result, returned, results_dict,
                   chunk_summaries, calls, reduce_in_flight, artifact, write_failed>>

\* lines 281-338: chunk the text and choose the path
Chunk ==
    /\ pc = "chunking"
    /\ \E cs \in {split_text_into_chunks(text, chunk_size, chunk_overlap)} :
       \E total_chunks \in {Len(cs)} :
           /\ chunks' = cs
           /\ futures' = [i \in 1..total_chunks |-> "new"]
           /\ cap_result' = [i \in 1..total_chunks |-> "none"]
           /\ returned' = [i \in 1..total_chunks |-> NoValue]
           /\ IF cs = <<>>
              THEN /\ outcome' = Raised("ValueError", "Chunking")
                   /\ pc' = "failed"
              ELSE /\ outcome' = outcome
                   /\ pc' = IF UseSinglePath(total_chunks) THEN "single"
                            ELSE IF UsePool(enable_async, total_chunks) THEN "submitting"
                            ELSE "sequential"
    /\ UNCHANGED <<inputVars, callVars, taskVars, splitVars, api_key, env_key, enable_async, max_workers,
                   save_chunk_summaries, results_dict, chunk_summaries, calls,
                   reduce_in_flight, artifact, write_failed>>

\* line 301 / 384 / worker thread: summarize_chunk issues the capability call
\* for chunk i
IssueChunkCall(i) ==
    /\ futures' = [futures EXCEPT ![i] = "running"]
    /\ calls' = Append(calls, ChunkCall(i, Len(chunks)))

\* lines 301-309: the single chunk's call is issued
SingleCall ==
    /\ pc = "single"
    /\ futures[1] = "new"
    /\ IssueChunkCall(1)
    /\ UNCHANGED <<inputVars, callVars, taskVars, splitVars, chunks, pc, api_key, env_key, enable_async,
                   max_workers, save_chunk_summaries, cap_result, returned, results_dict,
                   chunk_summaries, reduce_in_flight, artifact, write_failed, outcome>>

\* lines 301-326: the call resolves, the summary is written (no try/except
\* around the write) and returned
SingleReturn ==
    /\ pc = "single"
    /\ futures[1] = "running"
    /\ \E o \in CapOutcomes :
         LET summary == summarize_chunk(1, 1, o)
         IN  /\ cap_result' = [cap_result EXCEPT ![1] = o]
             /\ returned' = [returned EXCEPT ![1] = summary]
             /\ futures' = [futures EXCEPT ![1] = "finished"]
             /\ IF WritesArtifact(save_chunk_summaries)
                THEN \/ /\ artifact' = SingleArtifact(summary)
                        /\ write_failed' = FALSE
                        /\ outcome' = Returned(summary)
                        /\ pc' = "done"
                     \/ /\ artifact' \in Truncated(SingleArtifact(summary))
                        /\ write_failed' = TRUE
                        /\ outcome' = Raised("OSError", "Persisting")
                        /\ pc' = "failed"
                ELSE /\ UNCHANGED <<artifact, write_failed>>
                     /\ outcome' = Returned(summary)
                     /\ pc' = "done"
    /\ UNCHANGED <<inputVars, callVars, taskVars, splitVars, chunks, api_key, env_key, enable_async,
                   max_workers, save_chunk_summaries, results_dict, chunk_summaries,
                   calls, reduce_in_flight>>

\* lines 343-354: executor.submit for the next chunk; the loop ends after the
\* last one and the main thread enters as_completed
Submit ==
    /\ pc = "submitting"
    /\ \E i \in DOMAIN futures :
         /\ futures[i] = "new"
         /\ \A j \in 1..(i - 1) : futures[j] # "new"
         /\ futures' = [futures EXCEPT ![i] = "queued"]
         /\ pc' = IF SubmitLoopDone(i, Len(chunks)) THEN "collecting" ELSE "submitting"
    /\ UNCHANGED <<inputVars, callVars, taskVars, splitVars, chunks, api_key, env_key, enable_async,
                   max_workers, save_chunk_summaries, cap_result, returned, results_dict,
                   chunk_summaries, calls, reduce_in_flight, artifact, write_failed,
                   outcome>>

\* a pool thread takes the oldest queued work item; the pool has at most
\* max_workers threads
WorkerStart ==
    /\ pc \in {"submitting", "collecting"}
    /\ PoolHasIdleThread(Cardinality(InFlight), max_workers)
    /\ \E i \in DOMAIN futures :
         /\ futures[i] = "queued"
         /\ \A j \in 1..(i - 1) : futures[j] # "queued"
         /\ IssueChunkCall(i)
    /\ UNCHANGED <<inputVars, callVars, taskVars, splitVars, chunks, pc, api_key, env_key, enable_async,
                   max_workers, save_chunk_summaries, cap_result, returned, results_dict,
                   chunk_summaries, reduce_in_flight, artifact, write_failed, outcome>>

\* lines 185-202 in a pool thread: the call resolves, summarize_chunk returns
WorkerFinish ==
    /\ pc \in {"submitting", "collecting"}
    /\ \E i \in InFlight, o \in CapOutcomes :
         /\ cap_result' = [cap_result EXCEPT ![i] = o]
         /\ returned' = [returned EXCEPT ![i] = summarize_chunk(i, Len(chunks), o)]
         /\ futures' = [futures EXCEPT ![i] = "finished"]
    /\ UNCHANGED <<inputVars, callVars, taskVars, splitVars, chunks, pc, api_key, env_key, enable_async,
                   max_workers, save_chunk_summaries, results_dict, chunk_summaries,
                   calls, reduce_in_flight, artifact, write_failed, outcome>>

\* lines 360-373: as_completed yields a finished future; its result goes
\* into results_dict under its chunk index
Collect ==
    /\ pc = "collecting"
    /\ ~AsCompletedExhausted(futures)
    /\ \E i \in DOMAIN futures :
         /\ futures[i] = "finished"
         /\ results_dict' = DictSet(results_dict, i, returned[i])
         /\ futures' = [futures EXCEPT ![i] = "yielded"]
    /\ UNCHANGED <<inputVars, callVars, taskVars, splitVars, chunks, pc, api_key, env_key, enable_async,
                   max_workers, save_chunk_summaries, cap_result, returned, chunk_summaries,
                   calls, reduce_in_flight, artifact, write_failed, outcome>>

\* lines 375-377: the loop is over; the results are assembled and the `with`
\* block is left, which waits for the pool's threads
Assemble ==
    /\ pc = "collecting"
    /\ AsCompletedExhausted(futures)
    /\ PoolDrained(futures)
    /\ chunk_summaries' = AssembleResults(results_dict, Len(chunks))
    /\ pc' = "persisting"
    /\ UNCHANGED <<inputVars, callVars, taskVars, splitVars, chunks, api_key, env_key, enable_async,
                   max_workers, save_chunk_summaries, futures, cap_result, returned, results_dict,
                   calls, reduce_in_flight, artifact, write_failed, outcome>>

\* lines 380-392: sequential mode issues the call for the next chunk
SeqCall ==
    /\ pc = "sequential"
    /\ LET i == Len(chunk_summaries) + 1
       IN  /\ i <= Len(chunks)
           /\ futures[i] = "new"
           /\ IssueChunkCall(i)
    /\ UNCHANGED <<inputVars, callVars, taskVars, splitVars, chunks, pc, api_key, env_key, enable_async,
                   max_workers, save_chunk_summaries, cap_result, returned, results_dict,
                   chunk_summaries, reduce_in_flight, artifact, write_failed, outcome>>

\* lines 384-400: the call resolves and its summary is appended
SeqReturn ==
    /\ pc = "sequential"
    /\ LET i == Len(chunk_summaries) + 1
       IN  /\ i <= Len(chunks)
           /\ futures[i] = "running"
           /\ \E o \in CapOutcomes :
                LET summary == summarize_chunk(i, Len(chunks), o)
                IN  /\ cap_result' = [cap_result EXCEPT ![i] = o]
                    /\ returned' = [returned EXCEPT ![i] = summary]
                    /\ chunk_summaries' = Append(chunk_summaries, summary)
           /\ futures' = [futures EXCEPT ![i] = "finished"]
           /\ pc' = IF SeqLoopDone(i, Len(chunks)) THEN "persisting" ELSE "sequential"
    /\ UNCHANGED <<inputVars, callVars, taskVars, splitVars, chunks, api_key, env_key, enable_async,
                   max_workers, save_chunk_summaries, results_dict, calls,
                   reduce_in_flight, artifact, write_failed, outcome>>

\* lines 402-429: the partial summaries are written; a write error is caught
Persist ==
    /\ pc = "persisting"
    /\ IF WritesArtifact(save_chunk_summaries)
       THEN \/ /\ artifact' = MultiArtifact(chunk_summaries)
               /\ write_failed' = FALSE
            \/ /\ artifact' \in Truncated(MultiArtifact(chunk_summaries))
               /\ write_failed' = TRUE
       ELSE UNCHANGED <<artifact, write_failed>>
    /\ pc' = "reducing"
    /\ UNCHANGED <<inputVars, callVars, taskVars, splitVars, chunks, api_key, env_key, enable_async,
                   max_workers, save_chunk_summaries, futures, cap_result, returned, results_dict,
                   chunk_summaries, calls, reduce_in_flight, outcome>>

\* lines 436-478: the combined text is built and the final call is issued
Reduce ==
    /\ pc = "reducing"
    /\ ~reduce_in_flight
    /\ calls' = Append(calls, ReduceCall(Combine(chunk_summaries)))
    /\ reduce_in_flight' = TRUE
    /\ UNCHANGED <<inputVars, callVars, taskVars, splitVars, chunks, pc, api_key, env_key, enable_async,
                   max_workers, save_chunk_summaries, futures, cap_result, returned, results_dict,
                   chunk_summaries, artifact, write_failed, outcome>>

\* lines 471-492: the final call resolves; its result is returned, or its
\* failure is raised as Exception
ReduceReturn ==
    /\ pc = "reducing"
    /\ reduce_in_flight
    /\ \E o \in CapOutcomes :
         IF o = "ok"
         THEN /\ outcome' = Returned(Final(Combine(chunk_summaries)))
              /\ pc' = "done"
         ELSE /\ outcome' = Raised("Exception", "Reducing")
              /\ pc' = "failed"
    /\ reduce_in_flight' = FALSE
    /\ UNCHANGED <<inputVars, callVars, taskVars, splitVars, chunks, api_key, env_key, enable_async,
                   max_workers, save_chunk_summaries, futures, cap_result, returned, results_dict,
                   chunk_summaries, calls, artifact, write_failed>>

Next ==
    \/ Validate
    \/ Chunk
    \/ SingleCall
    \/ SingleReturn
    \/ Submit
    \/ WorkerStart
    \/ WorkerFinish
    \/ Collect
    \/ Assemble
    \/ SeqCall
    \/ SeqReturn
    \/ Persist
    \/ Reduce
    \/ ReduceReturn

Spec == SummInit /\ [][Next]_vars

\* summarize_text is a function body and the pool's threads are running
\* threads: a step that can be taken is taken; a capability call that is in
\* flight resolves (SingleReturn, WorkerFinish, SeqReturn and ReduceReturn
\* are the steps that take its result)
FairSpec == Spec /\ WF_vars(Next)

----------------------------------------------------------------------------
(* Properties of summarize_text, checked under Spec *)

total_chunks == Len(chunks)
ChunkCalls == { k \in 1..Len(calls) : calls[k].kind = "chunk" }
ReduceCalls == { k \in 1..Len(calls) : calls[k].kind = "reduce" }

\* a multi-chunk run whose per-chunk phase is over: chunk_summaries are assembled
MultiAssembled ==
    /\ total_chunks > 1
    /\ pc \in {"persisting", "reducing", "done", "failed"}

\* C1: in a multi-chunk run, whatever the order in which the per-chunk
\* calls complete, the assembled sequence has exactly N entries, its i-th
\* entry is what the call for chunk i returned, and the combined text handed
\* to the reduce call is built from them in chunk order.
C1_OrderedAssembly ==
    MultiAssembled =>
        /\ Len(chunk_summaries) = total_chunks
        /\ \A i \in 1..total_chunks : chunk_summaries[i] = returned[i]
        /\ \A k \in ReduceCalls :
             calls[k].combined =
                 [i \in 1..total_chunks |-> [label |-> i, summary |-> returned[i]]]

\* the three calls completed in the order 3, 2, 1 and the reduce call was issued
C1_Witness ==
    /\ pc = "reducing"
    /\ enable_async
    /\ reduce_in_flight
    /\ Len(results_dict) = 3
    /\ results_dict[1].idx = 3
    /\ results_dict[2].idx = 2
    /\ results_dict[3].idx = 1

\* C2: in a multi-chunk run a failing capability call does not make the
\* invocation raise: the slot of every failed chunk holds a placeholder with
\* the error's message, every other slot holds that chunk's summary, and the
\* reduce call is issued over all N slots; only the reduce call can raise.
C2_PartialFailureIsolation ==
    MultiAssembled =>
        /\ \A i \in 1..total_chunks :
             /\ cap_result[i] = "ok" => chunk_summaries[i] = Summary(i)
             /\ cap_result[i] \in Errors =>
                  /\ chunk_summaries[i].kind = "failed"
                  /\ chunk_summaries[i].reason = cap_result[i]
        /\ outcome.status = "raised" => outcome.stage = "Reducing"
        /\ pc \in {"done", "failed"} =>
             \E k \in ReduceCalls : Len(calls[k].combined) = total_chunks

\* chunk 2 of 3 failed, the others succeeded, and a final summary was returned
C2_Witness ==
    /\ pc = "done"
    /\ total_chunks = 3
    /\ cap_result[1] = "ok"
    /\ cap_result[2] \in Errors
    /\ cap_result[3] = "ok"
    /\ outcome.status = "returned"

\* C3: in a multi-chunk run the reduce call is issued at most once, exactly
\* once by the time the invocation ends, and only once every per-chunk call
\* has been issued and has resolved; it is never in flight together with a
\* per-chunk call.
C3_ReduceAfterAllChunks ==
    total_chunks > 1 =>
        /\ Cardinality(ReduceCalls) <= 1
        /\ ReduceCalls # {} =>
             /\ \A i \in 1..total_chunks :
                  /\ cap_result[i] # "none"
                  /\ ChunkCall(i, total_chunks) \in { calls[k] : k \in ChunkCalls }
             /\ Cardinality(ChunkCalls) = total_chunks
        /\ ~(reduce_in_flight /\ InFlight # {})
        /\ pc \in {"done", "failed"} => Cardinality(ReduceCalls) = 1

\* the reduce call is in flight after three pooled per-chunk calls
C3_Witness ==
    /\ reduce_in_flight
    /\ enable_async
    /\ total_chunks = 3
    /\ max_workers = 2

\* the invocation runs with a usable key (api_key holds the resolved key
\* once Validating is over)
HasCredential == api_key \in {"key", "envkey"}

\* C4: an invocation (here: one given a usable key) raises only from
\* Validating or from Reducing; chunking, per-chunk summarization and
\* persisting never make it raise.
C4_FailedOnlyFromValidatingOrReducing ==
    (HasCredential /\ pc = "failed") =>
        outcome.stage \in {"Validating", "Reducing"}

\* the text has no character, or only whitespace
InputBlank ==
    \A p \in 0..(TextLen(text) - 1) : CharAt(text, p) \in Whitespace

\* C5: for an empty or whitespace-only text the invocation goes from
\* Validating to Failed with ValueError, and no capability call is issued.
C5_BlankTextFailsFast ==
    InputBlank =>
        /\ pc \in {"validating", "failed"}
        /\ calls = <<>>
        /\ pc = "failed" =>
             /\ outcome.status = "raised"
             /\ outcome.error = "ValueError"
             /\ outcome.stage = "Validating"

\* a whitespace-only text, given with a key, was refused
C5_Witness ==
    /\ InputBlank
    /\ text # <<>>
    /\ api_key = "key"
    /\ pc = "failed"

\* neither the argument nor the environment gives a key
NoCredential == api_key \in {"None", ""} /\ env_key \in {"None", ""}

\* C6: with no credential the invocation fails in Validating, before
\* chunking and before any capability call.
C6_NoCredentialFailsFast ==
    NoCredential =>
        /\ pc \in {"validating", "failed"}
        /\ calls = <<>>
        /\ pc = "failed" => outcome.stage = "Validating"

\* C7: when chunking yields exactly one chunk, an invocation (here: one
\* given a usable key) issues exactly one capability call, for position 1 of
\* 1, issues no reduce call, and returns what that call produced.
C7_SingleChunkReturnsItsSummary ==
    (HasCredential /\ total_chunks = 1 /\ pc \in {"done", "failed"}) =>
        /\ calls = << ChunkCall(1, 1) >>
        /\ outcome = Returned(summarize_chunk(1, 1, cap_result[1]))

----------------------------------------------------------------------------
(* Properties of split_text_into_chunks, checked under SpecSplit *)

\* the positions of the text that lie in no returned chunk
Uncovered ==
    { p \in 0..(TextLen(text) - 1) :
        \A c \in 1..Len(chunks) : ~(chunks[c].lo <= p /\ p < chunks[c].hi) }

\* C9: when split_text_into_chunks has returned, no non-whitespace character
\* of the text is absent from all returned chunks (which is what the windows
\* covering the text is claimed to guarantee).
C9_NoCharacterLost ==
    sp_pc = "done" =>
        \A p \in Uncovered : CharAt(text, p) \in Whitespace

\* C10: every iteration of the loop moves start strictly forward, and the
\* function returns.
C10_StartIncreasesAndTerminates ==
    /\ [][sp_pc = "loop" => start' > start]_vars
    /\ <>(sp_pc = "done")

\* the loop ran more than once with a zero minimum step and an overlap no
\* smaller than the chunk size (so that the second window starts where the
\* first ends), and returned
C10_Witness ==
    /\ sp_pc = "done"
    /\ chunk_size < StepDivisor
    /\ chunk_overlap >= chunk_size
    /\ Len(windows) >= 2
    /\ windows[2].start = windows[1].end

\* C11: in a multi-chunk result the last chunk is at least the minimum chunk
\* size long and holds a character the chunk before it does not hold.
C11_NoTinyTrailingChunk ==
    (sp_pc = "done" /\ Len(chunks) > 1) =>
        LET last == chunks[Len(chunks)]
            prev == chunks[Len(chunks) - 1]
        IN  /\ last.hi - last.lo >= min_chunk_size(chunk_size)
            /\ last.hi > prev.hi

\* C12: the 250,000-character text of sentences ending in the full-width
\* period, split with max_size 100000 and overlap 300, gives exactly 3 chunks
\* (and so 3 positional labels in the one reduce call).
C12_ScenarioThreeChunks ==
    ( /\ sp_pc = "done"
      /\ text = ScenarioText
      /\ chunk_size = DefaultChunkSize
      /\ chunk_overlap = DefaultOverlap ) =>
        Len(chunks) = 3

\* C13: a non-empty text no longer than max_size gives exactly one chunk,
\* the text with its leading and trailing whitespace trimmed.
C13_ShortTextIsOneTrimmedChunk ==
    (sp_pc = "done" /\ 0 < TextLen(text) /\ TextLen(text) <= chunk_size) =>
        chunks = << Strip(text, 0, TextLen(text)) >>

\* the characters at which the loop may cut a chunk
Markers == {"dot", "bang", "qm", "nl"}

\* text[lo:hi] is a single natural segment: it holds no breakpoint marker
NaturalSegment(lo, hi) ==
    \A p \in lo..(hi - 1) : CharAt(text, p) \notin Markers

\* C14: every returned chunk is at most max_size long, unless it is a
\* single natural segment (it holds no breakpoint marker).
C14_ChunkWithinMaxSize ==
    sp_pc = "done" =>
        \A c \in 1..Len(chunks) :
            \/ chunks[c].hi - chunks[c].lo <= chunk_size
            \/ NaturalSegment(chunks[c].lo, chunks[c].hi)

\* C15: two consecutive windows share at most chunk_overlap characters: the
\* end of a window minus the start of the next never exceeds the overlap.
C15_SharedAtMostOverlap ==
    \A i \in 1..(Len(windows) - 1) :
        windows[i].end - windows[i + 1].start <= chunk_overlap

\* the second window starts exactly the overlap before the end of the first
C15_Witness ==
    /\ sp_pc = "done"
    /\ chunk_overlap > 0
    /\ Len(windows) >= 2
    /\ windows[1].end - windows[2].start = chunk_overlap

\* ceil(a / b), for b > 0
CeilDiv(a, b) == (a + b - 1) \div b

\* C16: for a text that needs splitting and an overlap below max_size (here
\* the overlap 0, which adds no chunks at the end of the text), the number of
\* chunks is at most ceil(len(text) / (max_size - overlap)) plus a small
\* constant (here 3), wherever the breakpoint markers are.
C16_ChunkCountBound ==
    (sp_pc = "done" /\ TextLen(text) > chunk_size /\ chunk_overlap = 0) =>
        Len(chunks) <= CeilDiv(TextLen(text), chunk_size - chunk_overlap) + 3

\* C17: in concurrent mode at most max_workers per-chunk capability calls
\* are in flight at any moment.
C17_AtMostMaxWorkersInFlight ==
    enable_async => Cardinality(InFlight) <= max_workers

\* two calls are in flight on a pool of two threads while the third chunk
\* waits for a thread
C17_Witness ==
    /\ enable_async
    /\ max_workers = 2
    /\ total_chunks = 3
    /\ Cardinality(InFlight) = 2
    /\ \E i \in DOMAIN futures : futures[i] = "queued"

\* the invocation got past chunking and is past the point where the partial
\* summaries are persisted
PastPersisting ==
    \/ pc \in {"reducing", "done"}
    \/ pc = "failed" /\ outcome.stage \in {"Persisting", "Reducing"}

\* a step that writes to the artifact file (the write may raise part-way)
WriteStep == <<artifact, write_failed>>' # <<artifact, write_failed>>

\* C18: with persistence enabled an invocation that gets past chunking
\* performs the write of the side artifact exactly once, on the
\* single-chunk path and on the multi-chunk path alike (the file is then
\* complete unless the write raised); with persistence disabled the
\* artifact is never written.
C18_ArtifactWrittenOnce ==
    /\ [](~save_chunk_summaries => (artifact = NoArtifact /\ ~write_failed))
    /\ []((save_chunk_summaries /\ PastPersisting) =>
             \/ write_failed
             \/ artifact.exists /\ artifact.complete /\ Len(artifact.parts) = total_chunks)
    /\ [][WriteStep =>
             /\ save_chunk_summaries
             /\ artifact = NoArtifact /\ ~write_failed
             /\ ~PastPersisting /\ PastPersisting']_vars

\* a single-chunk run with persistence has returned and its artifact is on disk
C18_Witness ==
    /\ pc = "done"
    /\ save_chunk_summaries
    /\ total_chunks = 1
    /\ artifact.exists
    /\ artifact.complete

\* C19: the error of an invocation that fails (here: in the reduce call,
\* after the per-chunk calls) tells which stage failed and how many chunks
\* were summarized successfully.
C19_FatalErrorHasContext ==
    (pc = "failed" /\ outcome.stage = "Reducing") =>
        {"stage", "succeeded_chunks"} \subseteq ErrorTells(outcome.stage)

\* the call that has just returned was given the arguments of call k
SameArguments(k) ==
    /\ earlier[k].text = text
    /\ earlier[k].size = chunk_size
    /\ earlier[k].overlap = chunk_overlap

\* C20: a call of split_text_into_chunks returns the chunk sequence that
\* every earlier call with the same (text, max_size, overlap) returned,
\* whatever calls were made in between.
C20_SameArgumentsSameChunks ==
    sp_pc = "done" =>
        \A k \in 1..Len(earlier) : SameArguments(k) => chunks = earlier[k].result

\* the third call repeats the arguments of the first, after a second call
\* with other arguments, and returns several chunks
C20_Witness ==
    /\ sp_pc = "done"
    /\ Len(earlier) = 2
    /\ SameArguments(1)
    /\ ~SameArguments(2)
    /\ earlier[2].result # <<>>
    /\ Len(chunks) > 1

\* the kinds of breakpoint marker, strongest first: paragraph break,
\* sentence-ending punctuation followed by whitespace, sentence-ending
\* punctuation alone, plain newline
Punctuation == {"dot", "bang", "qm"}
MarkerKinds ==
    << { <<"nl", "nl">> },
       { <<p, w>> : p \in Punctuation, w \in Whitespace },
       { <<p>> : p \in Punctuation },
       { <<"nl">> } >>

\* the position just after the rightmost marker of kind j that lies wholly
\* in [st, en), or -1 when the window holds none
CutAfterKind(j, st, en) ==
    LET ends == { RFind(text, sep, st, en) + Len(sep) : sep \in
                    { m \in MarkerKinds[j] : RFind(text, m, st, en) # -1 } }
    IN  IF ends = {} THEN -1 ELSE CHOOSE e \in ends : \A f \in ends : f <= e

KindsIn(st, en) == { j \in 1..Len(MarkerKinds) : CutAfterKind(j, st, en) # -1 }

\* C21: a non-final window that holds several kinds of marker, each at an
\* acceptable position (the chunk it would end is at least the minimum
\* size), is cut just after the rightmost marker of the strongest kind it
\* holds: paragraph break, then punctuation followed by whitespace, then
\* punctuation alone, then plain newline.
C21_CutsAtStrongestMarker ==
    \A k \in 1..Len(windows) :
        LET st == windows[k].start
            en == st + chunk_size
            kinds == KindsIn(st, en)
            best == CHOOSE j \in kinds : \A i \in kinds : j <= i
        IN  ( /\ en < TextLen(text)
              /\ Cardinality(kinds) >= 2
              /\ \A j \in kinds :
                     CutAfterKind(j, st, en) - st >= min_chunk_size(chunk_size) )
            => windows[k].end = CutAfterKind(best, st, en)

\* C22: in concurrent mode every chunk's call is submitted to the pool
\* before the orchestrator waits on, or takes, any result; while the submit
\* loop runs, the next submission is possible whatever the calls already in
\* flight do, so a call that never returns holds no submission back.
C22_AllSubmittedBeforeWaiting ==
    /\ (pc = "collecting" \/ results_dict # <<>>) =>
           \A i \in DOMAIN futures : futures[i] # "new"
    /\ pc = "submitting" => ENABLED Submit

\* a call is in flight and has not returned while a later chunk is still
\* to be submitted
C22_Witness ==
    /\ pc = "submitting"
    /\ \E i, j \in DOMAIN futures :
          /\ i < j
          /\ futures[i] = "running"
          /\ futures[j] = "new"

\* C23: whenever summarize_text has written the side artifact, on the
\* single-chunk path as on the multi-chunk path, the artifact holds the
\* generation timestamp, the chunk count, the model identifier and the
\* target language, followed by the partial summaries in chunk order.
C23_ArtifactHasMetadataAndParts ==
    (artifact.exists /\ artifact.complete) =>
        /\ {"timestamp", "chunk_count", "model", "language"} \subseteq artifact.meta
        /\ Len(artifact.parts) = total_chunks
        /\ \A i \in 1..total_chunks : artifact.parts[i] = returned[i]

\* C24: provided every capability call resolves (returns or raises), every
\* invocation of summarize_text terminates, with a summary returned or with
\* an error raised, in concurrent and in sequential mode.
C24_EveryInvocationTerminates ==
    <>(pc \in {"done", "failed"})

\* a concurrent run of several chunks has returned its summary although one
\* of its per-chunk calls raised
C24_Witness ==
    /\ pc = "done"
    /\ enable_async
    /\ total_chunks > 1
    /\ \E i \in 1..total_chunks : cap_result[i] \in Errors

\* C25: on the single-chunk path a capability call that fails does not fail
\* the invocation: summarize_text returns, what it returns is the failure
\* placeholder holding the error's reason, and with persistence on the
\* placeholder is what the artifact holds.
C25_SingleChunkFailureReturnsPlaceholder ==
    (total_chunks = 1 /\ cap_result[1] \in Errors) =>
        /\ pc = "done"
        /\ outcome = Returned(Placeholder(cap_result[1]))
        /\ save_chunk_summaries => artifact.parts = << Placeholder(cap_result[1]) >>

\* C26: a failure while writing the side artifact never aborts
\* summarize_text: no error of the write reaches the caller, the single-chunk
\* path still returns its summary and the multi-chunk path goes on to the
\* reduce call.
C26_WriteFailureNeverAborts ==
    write_failed =>
        /\ ~(pc = "failed" /\ outcome.stage = "Persisting")
        /\ total_chunks = 1 => outcome = Returned(returned[1])
        /\ total_chunks > 1 => pc \in {"reducing", "done", "failed"}

----------------------------------------------------------------------------
(* The task service, the background work and the progress stream *)

MaxTasks == 2         \* at most this many tasks are created
MaxClock == 2         \* the clock shows second 1 up to this second
MaxUpdates == 1       \* a background thread reports progress at most this often
MaxStreams == 1       \* at most this many progress streams are opened

\* create_task, lines 22-35: the state record of a new task
NewTask == [status |-> "processing", step |-> "init", error |-> FALSE]

\* what goes through a progress queue: the dict update_progress puts (lines
\* 51-56), the dict download_task puts at its end (api.py lines 284-289 and
\* 297-300), and None
Progress(step, status) == [kind |-> "progress", step |-> step, status |-> status]
DownloadEnd(status) == [kind |-> "end", step |-> "", status |-> status]
None == [kind |-> "None", step |-> "", status |-> ""]

\* a queue.Queue object: what it holds, and (history) everything ever put
NewQueue == [content |-> << >>, put_log |-> << >>]

\* create_task line 20: task_id = f"task_{int(time.time())}", at second
\* `now` after `made` earlier calls
TaskId(now, made) == now

\* complete_task line 70 and fail_task line 79: what is put after the final
\* progress message
SentinelOf(status) == << None >>

\* queue.Queue.put of `items`, one after the other, on queue object q
Put(q, items) ==
    [queues EXCEPT ![q].content = @ \o items, ![q].put_log = @ \o items]

\* a background thread just started for task id
Thread(kind, id) ==
    [kind |-> kind, task_id |-> id, pc |-> IF kind = "download" THEN "begin" ELSE "running",
     result |-> "none", progress_queue |-> 0, updates |-> 0]

\* create_task (lines 17-38) followed by threading.Thread(...).start()
CreateAndStart(kind) ==
    /\ Len(threads) < MaxTasks
    /\ \E task_id \in {TaskId(clock, Len(threads))} :
         /\ tasks' = (task_id :> NewTask) @@ tasks
         /\ queues' = Append(queues, NewQueue)
         /\ progress_queues' = (task_id :> Len(queues) + 1) @@ progress_queues
         /\ threads' = Append(threads, Thread(kind, task_id))
    /\ UNCHANGED <<inputVars, callVars, splitVars, chunks, summVars, clock, streams>>

\* api.py lines 47-78: POST /process
process_video == \E kind \in {"youtube", "rss"} : CreateAndStart(kind)

\* api.py lines 188-309: POST /download/start
start_download == CreateAndStart("download")

\* a second passes
Tick ==
    /\ clock < MaxClock
    /\ clock' = clock + 1
    /\ UNCHANGED <<inputVars, callVars, splitVars, chunks, summVars, tasks, progress_queues,
                   queues, threads, streams>>

\* update_progress (lines 40-58) called by thread i with `step`, the task's
\* status being set to `status` first when status # "": the step is
\* recorded and a message carrying the status the record then holds is put
\* on the queue the service holds for the task
UpdateBy(i, step, status, next_pc) ==
    LET id == threads[i].task_id
        task == IF status = "" THEN tasks[id]
                ELSE [tasks[id] EXCEPT !.status = status, !.error = (status = "error")]
    IN  /\ tasks' = [tasks EXCEPT ![id] = [task EXCEPT !.step = step]]
        /\ queues' = Put(progress_queues[id], << Progress(step, task.status) >>)
        /\ threads' = [threads EXCEPT ![i].pc = next_pc, ![i].updates = @ + 1]

\* api.py line 232: download_task keeps the queue of its task in a local
DownloadBegin ==
    /\ \E i \in 1..Len(threads) :
         /\ threads[i].pc = "begin"
         /\ threads' = [threads EXCEPT
                          ![i].pc = "running",
                          ![i].progress_queue = progress_queues[threads[i].task_id]]
    /\ UNCHANGED <<inputVars, callVars, splitVars, chunks, summVars, clock, tasks,
                   progress_queues, queues, streams>>

\* processors.py update_progress(...) calls and the progress hooks of
\* api.py lines 234-248: the work reports progress
ReportProgress ==
    /\ \E i \in 1..Len(threads) :
         /\ threads[i].pc = "running"
         /\ threads[i].updates < MaxUpdates
         /\ UpdateBy(i, "work", "", "running")
    /\ UNCHANGED <<inputVars, callVars, splitVars, chunks, summVars, clock, progress_queues,
                   streams>>

\* the work reaches its end (processors.py lines 251 / 532, api.py line 275
\* with the file in place) or raises (processors.py lines 253 / 534, api.py
\* line 293)
WorkEnds ==
    /\ \E i \in 1..Len(threads), r \in {"completed", "error"} :
         /\ threads[i].pc = "running"
         /\ threads' = [threads EXCEPT ![i].result = r,
                                       ![i].pc = IF threads[i].kind = "download"
                                                 THEN "report" ELSE "status"]
    /\ UNCHANGED <<inputVars, callVars, splitVars, chunks, summVars, clock, tasks,
                   progress_queues, queues, streams>>

\* complete_task line 67, fail_task lines 75-76: the status is recorded
SetStatus ==
    /\ \E i \in 1..Len(threads) :
         /\ threads[i].pc = "status"
         /\ tasks' = [tasks EXCEPT
                        ![threads[i].task_id].status = threads[i].result,
                        ![threads[i].task_id].error = (threads[i].result = "error")]
         /\ threads' = [threads EXCEPT ![i].pc = "progress"]
    /\ UNCHANGED <<inputVars, callVars, splitVars, chunks, summVars, clock, progress_queues,
                   queues, streams>>

\* complete_task line 68, fail_task line 77: the final update_progress
FinalProgress ==
    /\ \E i \in 1..Len(threads) :
         /\ threads[i].pc = "progress"
         /\ UpdateBy(i, threads[i].result, "", "sentinel")
    /\ UNCHANGED <<inputVars, callVars, splitVars, chunks, summVars, clock, progress_queues,
                   streams>>

\* complete_task lines 69-70, fail_task lines 78-79: the sentinel; the
\* processor returns
PutSentinel ==
    /\ \E i \in 1..Len(threads) :
         /\ threads[i].pc = "sentinel"
         /\ queues' = Put(progress_queues[threads[i].task_id],
                          SentinelOf(threads[i].result))
         /\ threads' = [threads EXCEPT ![i].pc = "ended"]
    /\ UNCHANGED <<inputVars, callVars, splitVars, chunks, summVars, clock, tasks,
                   progress_queues, streams>>

\* api.py lines 277-281 (the download succeeded: status, then
\* update_progress) and line 294 (it raised: update_progress only)
DownloadReport ==
    /\ \E i \in 1..Len(threads) :
         /\ threads[i].pc = "report"
         /\ UpdateBy(i, "download",
                     IF threads[i].result = "completed" THEN "completed" ELSE "",
                     "final")
    /\ UNCHANGED <<inputVars, callVars, splitVars, chunks, summVars, clock, progress_queues,
                   streams>>

\* api.py lines 283-289 (put on the queue kept at line 232) and lines
\* 295-300 (put on the queue looked up again); download_task returns
DownloadFinal ==
    /\ \E i \in 1..Len(threads) :
         /\ threads[i].pc = "final"
         /\ \E q \in {IF threads[i].result = "completed" THEN threads[i].progress_queue
                      ELSE progress_queues[threads[i].task_id]} :
              queues' = Put(q, << DownloadEnd(threads[i].result) >>)
         /\ threads' = [threads EXCEPT ![i].pc = "ended"]
    /\ UNCHANGED <<inputVars, callVars, splitVars, chunks, summVars, clock, tasks,
                   progress_queues, streams>>

\* api.py lines 90-98: GET /stream/<task_id>; the generator looks the queue
\* up once, and ends at once when the service has none for the id
stream_progress ==
    /\ Len(streams) < MaxStreams
    /\ \E id \in 1..MaxClock :
         streams' = Append(streams,
             IF id \in DOMAIN progress_queues
             THEN [task_id |-> id, queue_obj |-> progress_queues[id],
                   pc |-> "reading", last |-> "none"]
             ELSE [task_id |-> id, queue_obj |-> 0, pc |-> "stopped", last |-> "error"])
    /\ UNCHANGED <<inputVars, callVars, splitVars, chunks, summVars, clock, tasks,
                   progress_queues, queues, threads>>

\* api.py lines 102-105: a message is taken; None ends the stream
StreamGet ==
    /\ \E k \in 1..Len(streams) :
         /\ streams[k].pc = "reading"
         /\ queues[streams[k].queue_obj].content # << >>
         /\ \E message \in {Head(queues[streams[k].queue_obj].content)} :
              streams' = [streams EXCEPT
                            ![k].pc = IF message = None THEN "stopped" ELSE "reading",
                            ![k].last = IF message = None THEN "end" ELSE "data"]
         /\ queues' = [queues EXCEPT ![streams[k].queue_obj].content = Tail(@)]
    /\ UNCHANGED <<inputVars, callVars, splitVars, chunks, summVars, clock, tasks,
                   progress_queues, threads>>

\* api.py lines 102 and 106-109: nothing arrived within a second; a
\* heartbeat is sent and the loop goes on
StreamHeartbeat ==
    /\ \E k \in 1..Len(streams) :
         /\ streams[k].pc = "reading"
         /\ queues[streams[k].queue_obj].content = << >>
         /\ streams[k].last # "heartbeat"
         /\ streams' = [streams EXCEPT ![k].last = "heartbeat"]
    /\ UNCHANGED <<inputVars, callVars, splitVars, chunks, summVars, clock, tasks,
                   progress_queues, queues, threads>>

TaskInit ==
    /\ TaskIdle
    /\ text = << >>
    /\ chunk_size = DefaultChunkSize
    /\ chunk_overlap = DefaultOverlap
    /\ sp_pc = "idle"
    /\ start = 0
    /\ chunks = << >>
    /\ windows = << >>
    /\ earlier = << >>
    /\ SummIdle

TaskNext ==
    \/ process_video
    \/ start_download
    \/ Tick
    \/ DownloadBegin
    \/ ReportProgress
    \/ WorkEnds
    \/ SetStatus
    \/ FinalProgress
    \/ PutSentinel
    \/ DownloadReport
    \/ DownloadFinal
    \/ stream_progress
    \/ StreamGet
    \/ StreamHeartbeat

SpecTask == TaskInit /\ [][TaskNext]_vars

----------------------------------------------------------------------------
(* Properties of the task service, checked under SpecTask *)

Processors == {"youtube", "rss"}
Ended == { i \in 1..Len(threads) : threads[i].pc = "ended" }

\* C27: create_task called without an id never returns an id that is in
\* use: the ids returned are pairwise different, so no call replaces the
\* state record or the progress queue of an existing task (every queue
\* object created is still the queue of a task).
C27_CreateTaskIdIsFresh ==
    /\ \A i, j \in 1..Len(threads) : i # j => threads[i].task_id # threads[j].task_id
    /\ \A q \in 1..Len(queues) : \E id \in DOMAIN progress_queues : progress_queues[id] = q

\* the positions of the end-of-stream sentinel in all that was put on queue q
Sentinels(q) == { n \in 1..Len(queues[q].put_log) : queues[q].put_log[n] = None }

\* C28: when the processor of a task (process_youtube_video or
\* process_podcast_rss) has ended, what was put on the task's progress queue
\* ends with a progress message carrying the terminal status ("completed" or
\* "error", as the processor ended) followed at once by None, and that None
\* is the only one: nothing is put on the queue after the sentinel.
C28_FinalMessageThenOneSentinel ==
    \A i \in Ended :
        threads[i].kind \in Processors =>
            LET q == progress_queues[threads[i].task_id]
                n == Len(queues[q].put_log)
            IN  /\ n >= 2
                /\ Sentinels(q) = {n}
                /\ queues[q].put_log[n - 1] =
                       Progress(threads[i].result, threads[i].result)

\* C29: the progress stream of every task ends: once the background work of
\* a task (a processing task or a download task) has finished or failed, a
\* None sentinel has been put on the task's progress queue, and no
\* stream_progress consumer of the task is left waiting on an empty queue
\* (where all it can do is send heartbeats).
C29_StreamEndsWhenWorkEnds ==
    \A i \in Ended :
        /\ Sentinels(progress_queues[threads[i].task_id]) # {}
        /\ \A k \in 1..Len(streams) :
              (streams[k].task_id = threads[i].task_id /\ streams[k].pc = "reading") =>
                  queues[streams[k].queue_obj].content # << >>

\* C30: when the background work of a task has ended, the status the task
\* records is terminal and tells how the work ended: "completed" if it
\* succeeded, "error" if it raised, and never "processing"; for processing
\* tasks and for download tasks.
C30_EndedTaskHasTerminalStatus ==
    \A i \in Ended : tasks[threads[i].task_id].status = threads[i].result

====
